---- MODULE Spec2Model ----
(***************************************************************************)
(* Model of the breadcrumbs persistence schema (src/app/models.py): the    *)
(* tag-name normalizer, the construction of Tag / TagCreate / Unit / Crumb *)
(* instances, and the relational store (tag, unit, crumb, crumb_tag) with  *)
(* its unique index and referential actions.                               *)
(*                                                                         *)
(* Strings are sequences of one-character strings over Chars.  The store   *)
(* is the storage layer the schema declares: tables are sets of rows, a    *)
(* request works through a session (connection) that INSERTs inside a      *)
(* transaction (Flush) and then COMMITs or ROLLBACKs.                      *)
(***************************************************************************)
EXTENDS Integers, Sequences, FiniteSets, TLC

VARIABLES
    tag_rows,    \* committed rows of table tag:   [id, name]
    unit_rows,   \* committed rows of table unit:  [id, name]
    crumb_rows,  \* committed rows of table crumb: [id, body_md, visibility,
                 \*   unit_id, created_at, updated_at]
    crumb_tag,   \* committed rows of table crumb_tag: [crumb_id, tag_id]
    mem,         \* per session: the model instance the request holds in memory
    pc,          \* per session: "idle" | "new" | "flushed"
    next_id,     \* per table: next autoincrement primary key
    last,        \* the last operation and its outcome
    raw,         \* normalizer harness: the input string
    res1,        \* normalizer harness: normalize_name(raw)
    res2,        \* normalizer harness: normalize_name applied to res1's value
    shown,       \* normalizer harness: display_name of a tag named res1's value
    shape        \* normalizer harness: TagCreate(name=raw)

vars == <<tag_rows, unit_rows, crumb_rows, crumb_tag, mem, pc, next_id, last,
          raw, res1, res2, shown, shape>>

storeVars == <<tag_rows, unit_rows, crumb_rows, crumb_tag, mem, pc, next_id, last>>
normVars == <<raw, res1, res2, shown, shape>>

(***************************************************************************)
(* Bounds                                                                  *)
(***************************************************************************)
MaxLen == 4          \* longest normalizer input
MaxRows == 3         \* rows inserted over a run, all tables together
MaxRuns == 3         \* runs of one character in an input around the length bound

(***************************************************************************)
(* Characters                                                              *)
(***************************************************************************)
LowerAscii == {"a"}
UpperAscii == {"A"}
Digits == {"1"}
Dash == "-"
Whitespace == {" "}
\* a letter outside ASCII (already lower case), e.g. U+00E9
OtherLetters == {"U+00E9"}
\* a character that is no letter, digit, dash or whitespace
Punctuation == {"!"}
Letters == LowerAscii \cup UpperAscii \cup OtherLetters
Chars == Letters \cup Digits \cup {Dash} \cup Whitespace \cup Punctuation

\* None / SQL NULL in an integer column (primary keys start at 1)
NULL == 0

\* None / SQL NULL in a timestamp column
NoTime == -1

(***************************************************************************)
(* Python string primitives used by normalize_name                         *)
(***************************************************************************)
\* str.lower() on one character
LowerChar(c) == IF c = "A" THEN "a" ELSE c

\* str.lower()
Lower(v) == [i \in 1..Len(v) |-> LowerChar(v[i])]

\* length of the run of characters of S that v starts with
RunLen(v, S) ==
    IF \A i \in 1..Len(v) : v[i] \in S THEN Len(v)
    ELSE (CHOOSE i \in 1..Len(v) :
              v[i] \notin S /\ \A j \in 1..(i - 1) : v[j] \in S) - 1

LStrip(v, S) == SubSeq(v, RunLen(v, S) + 1, Len(v))

RStrip(v, S) ==
    IF \A i \in 1..Len(v) : v[i] \in S THEN <<>>
    ELSE SubSeq(v, 1, CHOOSE i \in 1..Len(v) :
                          v[i] \notin S /\ \A j \in (i + 1)..Len(v) : v[j] \in S)

\* str.strip() (S = Whitespace) and str.strip("-") (S = {"-"})
Strip(v, S) == RStrip(LStrip(v, S), S)

\* re.sub of a greedy run pattern: every maximal run of at least min characters
\* of S becomes rep; shorter runs stay
SubRuns(v, S, min, rep) ==
    LET n == Len(v)
        \* position i lies in a run of at least min characters of S
        InRun(i) == \E a \in (i - min + 1)..i :
                        /\ a >= 1
                        /\ a + min - 1 <= n
                        /\ \A k \in a..(a + min - 1) : v[k] \in S
        marked == [i \in 1..n |->
                     IF ~InRun(i) THEN <<TRUE, v[i]>>
                     ELSE IF i = 1 \/ v[i - 1] \notin S THEN <<TRUE, rep>>
                     ELSE <<FALSE, rep>>]
        IsKept(m) == m[1]
        kept == SelectSeq(marked, IsKept)
    IN  [i \in 1..Len(kept) |-> kept[i][2]]

\* re.match(r"^[a-z0-9\-]+$", v)
MatchesTagPattern(v) ==
    /\ v # <<>>
    /\ \A i \in 1..Len(v) : v[i] \in LowerAscii \cup Digits \cup {Dash}

Ok(v) == [ok |-> TRUE, val |-> v, error |-> "none"]
Raise(msg) == [ok |-> FALSE, val |-> <<>>, error |-> msg]

\* normalize_name without v.strip("-")
normalize_name_keeps_dashes(v) ==
    IF v = <<>> \/ Strip(v, Whitespace) = <<>>
    THEN Raise("Tag name cannot be empty")
    ELSE LET v1 == SubRuns(Lower(Strip(v, Whitespace)), Whitespace, 1, Dash)
             v2 == SubRuns(v1, {Dash}, 2, Dash)
         IN  IF v2 = <<>>
             THEN Raise("Tag name cannot be empty after normalization")
             ELSE IF ~MatchesTagPattern(v2)
             THEN Raise("Tag names can only contain letters, numbers, and dashes")
             ELSE Ok(v2)

\* normalize_name without the final pattern check
normalize_name_unchecked(v) ==
    IF v = <<>> \/ Strip(v, Whitespace) = <<>>
    THEN Raise("Tag name cannot be empty")
    ELSE LET v1 == SubRuns(Lower(Strip(v, Whitespace)), Whitespace, 1, Dash)
             v2 == SubRuns(v1, {Dash}, 2, Dash)
             v3 == Strip(v2, {Dash})
         IN  IF v3 = <<>>
             THEN Raise("Tag name cannot be empty after normalization")
             ELSE Ok(v3)

\* normalize_name collapsing dash runs before turning whitespace into dashes
normalize_name_swapped(v) ==
    IF v = <<>> \/ Strip(v, Whitespace) = <<>>
    THEN Raise("Tag name cannot be empty")
    ELSE LET v1 == SubRuns(Lower(Strip(v, Whitespace)), {Dash}, 2, Dash)
             v2 == SubRuns(v1, Whitespace, 1, Dash)
             v3 == Strip(v2, {Dash})
         IN  IF v3 = <<>>
             THEN Raise("Tag name cannot be empty after normalization")
             ELSE IF ~MatchesTagPattern(v3)
             THEN Raise("Tag names can only contain letters, numbers, and dashes")
             ELSE Ok(v3)

(***************************************************************************)
(* TagBase.normalize_name                                                  *)
(***************************************************************************)
normalize_name(v) ==
    IF v = <<>> \/ Strip(v, Whitespace) = <<>>
    THEN Raise("Tag name cannot be empty")
    ELSE LET v1 == SubRuns(Lower(Strip(v, Whitespace)), Whitespace, 1, Dash)
             v2 == SubRuns(v1, {Dash}, 2, Dash)
             v3 == Strip(v2, {Dash})
         IN  IF v3 = <<>>
             THEN Raise("Tag name cannot be empty after normalization")
             ELSE IF ~MatchesTagPattern(v3)
             THEN Raise("Tag names can only contain letters, numbers, and dashes")
             ELSE Ok(v3)

(***************************************************************************)
(* Tag.display_name                                                        *)
(***************************************************************************)
\* str.replace(old, new) for one-character old and new
Replace(v, old, new) == [i \in 1..Len(v) |-> IF v[i] = old THEN new ELSE v[i]]

\* str.upper() of one character
UpperChar(c) ==
    IF c = "a" THEN "A" ELSE IF c = "U+00E9" THEN "U+00C9" ELSE c

\* str.title(): a cased character is upper-cased when the character before it
\* is not cased (or there is none), lower-cased otherwise
Title(v) ==
    [i \in 1..Len(v) |->
        IF v[i] \notin Letters THEN v[i]
        ELSE IF i = 1 \/ v[i - 1] \notin Letters THEN UpperChar(v[i])
        ELSE LowerChar(v[i])]

\* Tag.display_name
display_name(name) == Title(Replace(name, "-", " "))

(***************************************************************************)
(* Normalizer harness: every input up to MaxLen and inputs around the      *)
(* length bound, normalized once and, when that succeeded, once more on    *)
(* the result, displayed, and submitted as a tag-create shape.             *)
(***************************************************************************)
Inputs == UNION {[1..n -> Chars] : n \in 0..MaxLen}

UnitNameMaxLength == 100    \* UnitBase.name max_length
TagNameMinLength == 1       \* TagBase.name min_length
TagNameMaxLength == 50      \* TagBase.name max_length

\* c * n
Rep(c, n) == [i \in 1..n |-> c]

\* inputs around the length bound of a tag name: up to MaxRuns runs of one
\* character, each one character or max_length characters long
RunChars == {"a", " ", "-"}
RunLengths == {1, TagNameMaxLength}
Runs == {Rep(c, n) : c \in RunChars, n \in RunLengths}

RECURSIVE Concat(_)
Concat(parts) == IF parts = <<>> THEN <<>> ELSE Head(parts) \o Concat(Tail(parts))

LongInputs == {Concat(p) : p \in UNION {[1..k -> Runs] : k \in 1..MaxRuns}}

\* the harness has not called the normalizer yet
NotRun == [ok |-> FALSE, val |-> <<>>, error |-> "not-run"]

StoreInit ==
    /\ tag_rows = {}
    /\ unit_rows = {}
    /\ crumb_rows = {}
    /\ crumb_tag = {}

NormIdle ==
    /\ raw = <<>>
    /\ res1 = NotRun
    /\ res2 = NotRun
    /\ shown = NotRun
    /\ shape = NotRun

NormInit ==
    /\ raw \in Inputs \cup LongInputs
    /\ res1 = NotRun
    /\ res2 = NotRun
    /\ shown = NotRun
    /\ shape = NotRun

Normalize ==
    /\ res1 = NotRun
    /\ res1' = normalize_name(raw)
    /\ UNCHANGED <<raw, res2, shown, shape, storeVars>>

NormalizeAgain ==
    /\ res1 # NotRun
    /\ res1.ok
    /\ res2 = NotRun
    /\ res2' = normalize_name(res1.val)
    /\ UNCHANGED <<raw, res1, shown, shape, storeVars>>

\* tag = Tag(name=res1.val); tag.display_name
Display ==
    /\ res1.ok
    /\ shown = NotRun
    /\ shown' = Ok(display_name(res1.val))
    /\ UNCHANGED <<raw, res1, res2, shape, storeVars>>


(***************************************************************************)
(* Field constraints and defaults of the model classes                     *)
(***************************************************************************)

\* class Visibility(str, Enum)
Visibility == {"draft", "published"}

Omitted == "omitted"
NoObj == [kind |-> "none"]

\* TagCreate(name=v) with the validator in the default ("after") mode: the
\* field's length constraints on the raw value, then the validator
TagCreateAfter(v) ==
    IF Len(v) < TagNameMinLength \/ Len(v) > TagNameMaxLength
    THEN Raise("string length")
    ELSE normalize_name(v)

\* TagCreate(name=v): the "before" validator, then the field's length constraints
TagCreate(v) ==
    LET r == normalize_name(v) IN
    IF ~r.ok THEN r
    ELSE IF Len(r.val) < TagNameMinLength \/ Len(r.val) > TagNameMaxLength
    THEN Raise("string length")
    ELSE r

\* Tag(name=v): a table model is constructed without running validation
\* (tests/test_tag_model.py: Tag(name="Python").name == "Python")
Tag(v) == [kind |-> "tag", id |-> NULL, name |-> v]

\* Unit(name="a" * n): the name is represented by its length n
Unit(n) == [kind |-> "unit", id |-> NULL, name |-> n]

\* Readings of datetime.now(timezone.utc) are represented by their order among
\* the timestamps of one crumb: the construction of a crumb reads Epoch
Epoch == 0

\* Crumb(body_md=b, visibility=v, unit_id=u): visibility defaults to draft,
\* created_at to the time of construction, updated_at to None
Crumb(b, v, u) ==
    [kind |-> "crumb", id |-> NULL, body_md |-> b,
     visibility |-> IF v = Omitted THEN "draft" ELSE v,
     unit_id |-> u, created_at |-> Epoch, updated_at |-> NoTime]

(***************************************************************************)
(* Storage layer: the declared indexes and referential actions             *)
(***************************************************************************)
\* SQL lower(name)
SqlLower(v) == Lower(v)

\* a unique index on the name as stored (case-sensitive)
IndexKeyExact(v) == v

\* Index("uq_tag_name_lower_idx", text("lower(name)"), unique=True): the indexed expression
IndexKey(v) == SqlLower(v)

AllSessions == {1, 2}

CommittedKeys == {IndexKey(t.name) : t \in tag_rows}

\* an index consulted only against committed rows (check-then-insert)
PendingKeysIgnored(s) == {}

\* index entries of rows inserted by other open transactions: an INSERT of such a
\* key waits for that transaction to end
PendingKeys(s) ==
    {IndexKey(mem[o].name) :
        o \in {x \in AllSessions \ {s} : pc[x] = "flushed" /\ mem[x].kind = "tag"}}

\* crumb_tag.tag_id without a referential action
TagDeleteNoAction(assoc, tid) == assoc

\* crumb_tag.tag_id: ondelete CASCADE
TagDeleteCascade(assoc, tid) == {a \in assoc : a.tag_id # tid}

\* crumb_tag.crumb_id: ondelete CASCADE
CrumbDeleteCascade(assoc, cid) == {a \in assoc : a.crumb_id # cid}

\* an UPDATE that does not fire the column's onupdate default
onupdate_ignored(row, now) == row

\* updated_at's onupdate: every UPDATE of the row that does not set updated_at
\* itself stores the current time in it
onupdate(row, now) == [row EXCEPT !.updated_at = now]

\* the time an UPDATE of row c reads: later than the timestamps c carries
Now(c) ==
    IF c.updated_at = NoTime THEN c.created_at + 1
    ELSE IF c.updated_at > c.created_at THEN c.updated_at + 1
    ELSE c.created_at + 1

\* UPDATE crumb SET unit_id = u
SetUnit(c, u) == onupdate([c EXCEPT !.unit_id = u], Now(c))

\* UPDATE crumb SET body_md = b
SetBody(c, b) == onupdate([c EXCEPT !.body_md = b], Now(c))

\* a relationship declared with cascade="all, delete": the unit's crumbs go with it
UnitDeleteCascades(rows, uid) == {c \in rows : c.unit_id # uid}

\* Unit.crumbs has no delete cascade and crumb.unit_id is nullable: deleting the
\* unit detaches its crumbs (unit_id becomes NULL, an UPDATE of the crumb row)
UnitDeleteCrumbs(rows, uid) ==
    {IF c.unit_id = uid THEN SetUnit(c, NULL) ELSE c : c \in rows}

Row(o) ==
    IF o.kind = "tag" THEN [id |-> o.id, name |-> o.name]
    ELSE IF o.kind = "unit" THEN [id |-> o.id, name |-> o.name]
    ELSE [id |-> o.id, body_md |-> o.body_md, visibility |-> o.visibility,
          unit_id |-> o.unit_id, created_at |-> o.created_at,
          updated_at |-> o.updated_at]

(***************************************************************************)
(* Inputs of the requests                                                  *)
(***************************************************************************)
TagNames == {<<"a">>, <<"A">>, <<" ">>}
UnitNames == {UnitNameMaxLength, UnitNameMaxLength + 1}
VisibilityArgs == Visibility \cup {Omitted, "bogus"}

Sessions == AllSessions

\* rows inserted so far, and instances constructed and waiting for their INSERT
Inserted == next_id["tag"] + next_id["unit"] + next_id["crumb"] - 3
Waiting == Cardinality({s \in Sessions : pc[s] = "new"})
MayCreate == Inserted + Waiting < MaxRows

Did(op, id, refs) == [op |-> op, id |-> id, refs |-> refs]

SessionsInit ==
    /\ mem = [s \in Sessions |-> NoObj]
    /\ pc = [s \in Sessions |-> "idle"]
    /\ next_id = [t \in {"tag", "unit", "crumb"} |-> 1]
    /\ last = Did("none", NULL, {})

Init == StoreInit /\ SessionsInit /\ NormIdle

Construct(s, o) ==
    /\ mem' = [mem EXCEPT ![s] = o]
    /\ pc' = [pc EXCEPT ![s] = "new"]
    /\ last' = Did("construct", s, {})
    /\ UNCHANGED <<tag_rows, unit_rows, crumb_rows, crumb_tag, next_id, normVars>>

\* tag = Tag(name=v)
NewTag(s, v) ==
    /\ pc[s] = "idle"
    /\ MayCreate
    /\ Construct(s, Tag(v))

\* shape = TagCreate(name=v); tag = Tag(name=shape.name)
NewTagFromCreate(s, v) ==
    /\ pc[s] = "idle"
    /\ MayCreate
    /\ LET r == TagCreate(v) IN
       IF r.ok THEN Construct(s, Tag(r.val))
       ELSE /\ last' = Did("ValidationError", s, {})
            /\ UNCHANGED <<tag_rows, unit_rows, crumb_rows, crumb_tag, mem, pc, next_id, normVars>>

\* unit = Unit(name="a" * n)
NewUnit(s, n) ==
    /\ pc[s] = "idle"
    /\ MayCreate
    /\ Construct(s, Unit(n))

\* crumb = Crumb(body_md="b1", visibility=v, unit_id=u), u a stored unit's id
NewCrumb(s, v, u) ==
    /\ pc[s] = "idle"
    /\ MayCreate
    /\ u \in {NULL} \cup {x.id : x \in unit_rows}
    /\ Construct(s, Crumb("b1", v, u))

(***************************************************************************)
(* session.add(obj); session.commit(): the INSERT (Flush), then COMMIT     *)
(***************************************************************************)
InsertOk(s) ==
    /\ mem' = [mem EXCEPT ![s].id = next_id[mem[s].kind]]
    /\ next_id' = [next_id EXCEPT ![mem[s].kind] = @ + 1]
    /\ pc' = [pc EXCEPT ![s] = "flushed"]
    /\ last' = Did("insert", s, {})
    /\ UNCHANGED <<tag_rows, unit_rows, crumb_rows, crumb_tag, normVars>>

\* the statement fails with error e: the transaction is rolled back, nothing
\* is stored, the request ends
InsertFail(s, e) ==
    /\ pc' = [pc EXCEPT ![s] = "idle"]
    /\ mem' = [mem EXCEPT ![s] = NoObj]
    /\ last' = Did(e, s, {})
    /\ UNCHANGED <<tag_rows, unit_rows, crumb_rows, crumb_tag, next_id, normVars>>

\* INSERT INTO tag: the unique index decides
FlushTag(s) ==
    /\ pc[s] = "new"
    /\ mem[s].kind = "tag"
    /\ IndexKey(mem[s].name) \notin PendingKeys(s)
    /\ IF IndexKey(mem[s].name) \in CommittedKeys
       THEN InsertFail(s, "IntegrityError: unique")
       ELSE InsertOk(s)

\* INSERT INTO unit: name is VARCHAR(100); whether a longer value is refused
\* depends on the storage engine
FlushUnit(s) ==
    /\ pc[s] = "new"
    /\ mem[s].kind = "unit"
    /\ \/ InsertOk(s)
       \/ /\ mem[s].name > UnitNameMaxLength
          /\ InsertFail(s, "DataError")

\* INSERT INTO crumb: unit_id references unit.id; whether a visibility outside
\* the enum is refused depends on the storage engine
FlushCrumb(s) ==
    /\ pc[s] = "new"
    /\ mem[s].kind = "crumb"
    /\ IF mem[s].unit_id # NULL /\ mem[s].unit_id \notin {u.id : u \in unit_rows}
       THEN InsertFail(s, "IntegrityError: foreign key")
       ELSE \/ InsertOk(s)
            \/ /\ mem[s].visibility \notin Visibility
               /\ InsertFail(s, "DataError")

\* COMMIT: the inserted row becomes visible; the request ends
Commit(s) ==
    /\ pc[s] = "flushed"
    /\ tag_rows' = IF mem[s].kind = "tag" THEN tag_rows \cup {Row(mem[s])} ELSE tag_rows
    /\ unit_rows' = IF mem[s].kind = "unit" THEN unit_rows \cup {Row(mem[s])} ELSE unit_rows
    /\ crumb_rows' = IF mem[s].kind = "crumb" THEN crumb_rows \cup {Row(mem[s])} ELSE crumb_rows
    /\ pc' = [pc EXCEPT ![s] = "idle"]
    /\ mem' = [mem EXCEPT ![s] = NoObj]
    /\ last' = Did("commit", s, {})
    /\ UNCHANGED <<crumb_tag, next_id, normVars>>

\* session.rollback() before the commit
Rollback(s) ==
    /\ pc[s] = "flushed"
    /\ pc' = [pc EXCEPT ![s] = "idle"]
    /\ mem' = [mem EXCEPT ![s] = NoObj]
    /\ last' = Did("rollback", s, {})
    /\ UNCHANGED <<tag_rows, unit_rows, crumb_rows, crumb_tag, next_id, normVars>>

(***************************************************************************)
(* Requests on committed rows, each one transaction                        *)
(***************************************************************************)
\* crumb.tags.append(tag); commit
Associate(c, t) ==
    /\ c \in crumb_rows
    /\ t \in tag_rows
    /\ [crumb_id |-> c.id, tag_id |-> t.id] \notin crumb_tag
    /\ crumb_tag' = crumb_tag \cup {[crumb_id |-> c.id, tag_id |-> t.id]}
    /\ last' = Did("associate", c.id, {t.id})
    /\ UNCHANGED <<tag_rows, unit_rows, crumb_rows, mem, pc, next_id, normVars>>

\* crumb.body_md = "b2"; commit (the UPDATE fires updated_at's onupdate)
ModifyCrumb(c) ==
    /\ c \in crumb_rows
    /\ c.body_md # "b2"
    /\ crumb_rows' = (crumb_rows \ {c}) \cup {SetBody(c, "b2")}
    /\ last' = Did("modify_crumb", c.id, {})
    /\ UNCHANGED <<tag_rows, unit_rows, crumb_tag, mem, pc, next_id, normVars>>

\* session.delete(tag); commit
DeleteTag(t) ==
    /\ t \in tag_rows
    /\ tag_rows' = tag_rows \ {t}
    /\ crumb_tag' = TagDeleteCascade(crumb_tag, t.id)
    /\ last' = Did("delete_tag", t.id,
                   {a.crumb_id : a \in {x \in crumb_tag : x.tag_id = t.id}})
    /\ UNCHANGED <<unit_rows, crumb_rows, mem, pc, next_id, normVars>>

\* session.delete(crumb); commit
DeleteCrumb(c) ==
    /\ c \in crumb_rows
    /\ crumb_rows' = crumb_rows \ {c}
    /\ crumb_tag' = CrumbDeleteCascade(crumb_tag, c.id)
    /\ last' = Did("delete_crumb", c.id,
                   {a.tag_id : a \in {x \in crumb_tag : x.crumb_id = c.id}})
    /\ UNCHANGED <<tag_rows, unit_rows, mem, pc, next_id, normVars>>

\* session.delete(unit); commit.  A crumb row inserted by an open transaction
\* holds the unit row it references.
DeleteUnit(u) ==
    /\ u \in unit_rows
    /\ \A s \in Sessions :
          ~(pc[s] = "flushed" /\ mem[s].kind = "crumb" /\ mem[s].unit_id = u.id)
    /\ unit_rows' = unit_rows \ {u}
    /\ crumb_rows' = UnitDeleteCrumbs(crumb_rows, u.id)
    /\ last' = Did("delete_unit", u.id,
                   {c.id : c \in {x \in crumb_rows : x.unit_id = u.id}})
    /\ UNCHANGED <<tag_rows, crumb_tag, mem, pc, next_id, normVars>>

(***************************************************************************)
(* Relationship attributes (lazy="selectin"): what a read of an entity     *)
(* loads beside its own row                                                *)
(***************************************************************************)
\* Tag.crumbs joined through crumb_tag with the two key columns exchanged
Tag_crumbs_swapped(t) ==
    {c \in crumb_rows : [crumb_id |-> t.id, tag_id |-> c.id] \in crumb_tag}

\* Crumb.unit: the unit row crumb.unit_id references (no row: None)
Crumb_unit(c) == {u \in unit_rows : u.id = c.unit_id}

\* Crumb.tags: link_model=CrumbTag
Crumb_tags(c) ==
    {t \in tag_rows : [crumb_id |-> c.id, tag_id |-> t.id] \in crumb_tag}

\* Unit.crumbs: back_populates="unit"
Unit_crumbs(u) == {c \in crumb_rows : c.unit_id = u.id}

\* Tag.crumbs: link_model=CrumbTag
Tag_crumbs(t) ==
    {c \in crumb_rows : [crumb_id |-> c.id, tag_id |-> t.id] \in crumb_tag}

Loaded(units, tags, crumbs) == [unit |-> units, tags |-> tags, crumbs |-> crumbs]

\* session.get(Crumb, id) / session.refresh(crumb): the crumb with unit and tags
ReadCrumb(c) ==
    /\ c \in crumb_rows
    /\ last' = Did("read_crumb", c.id, Loaded(Crumb_unit(c), Crumb_tags(c), {}))
    /\ UNCHANGED <<tag_rows, unit_rows, crumb_rows, crumb_tag, mem, pc, next_id, normVars>>

\* session.refresh(unit): the unit with its crumbs
ReadUnit(u) ==
    /\ u \in unit_rows
    /\ last' = Did("read_unit", u.id, Loaded({}, {}, Unit_crumbs(u)))
    /\ UNCHANGED <<tag_rows, unit_rows, crumb_rows, crumb_tag, mem, pc, next_id, normVars>>

\* session.refresh(tag): the tag with its crumbs
ReadTag(t) ==
    /\ t \in tag_rows
    /\ last' = Did("read_tag", t.id, Loaded({}, {}, Tag_crumbs(t)))
    /\ UNCHANGED <<tag_rows, unit_rows, crumb_rows, crumb_tag, mem, pc, next_id, normVars>>

Next ==
    \/ \E s \in Sessions, v \in TagNames : NewTag(s, v)
    \/ \E s \in Sessions, v \in TagNames : NewTagFromCreate(s, v)
    \/ \E s \in Sessions, n \in UnitNames : NewUnit(s, n)
    \/ \E s \in Sessions, v \in VisibilityArgs, u \in 0..MaxRows : NewCrumb(s, v, u)
    \/ \E s \in Sessions : FlushTag(s)
    \/ \E s \in Sessions : FlushUnit(s)
    \/ \E s \in Sessions : FlushCrumb(s)
    \/ \E s \in Sessions : Commit(s)
    \/ \E s \in Sessions : Rollback(s)
    \/ \E c \in crumb_rows, t \in tag_rows : Associate(c, t)
    \/ \E c \in crumb_rows : ModifyCrumb(c)
    \/ \E t \in tag_rows : DeleteTag(t)
    \/ \E c \in crumb_rows : DeleteCrumb(c)
    \/ \E u \in unit_rows : DeleteUnit(u)
    \/ \E c \in crumb_rows : ReadCrumb(c)
    \/ \E u \in unit_rows : ReadUnit(u)
    \/ \E t \in tag_rows : ReadTag(t)

Spec == Init /\ [][Next]_vars

\* the normalizer on every input up to MaxLen
\* shape = TagCreate(name=raw)
Create ==
    /\ shape = NotRun
    /\ shape' = TagCreate(raw)
    /\ UNCHANGED <<raw, res1, res2, shown, storeVars>>

NormNext == Normalize \/ NormalizeAgain \/ Display \/ Create

NormSpecInit == StoreInit /\ SessionsInit /\ NormInit

NormSpec == NormSpecInit /\ [][NormNext]_vars

(***************************************************************************)
(* Properties of the normalizer (checked under NormSpec)                   *)
(***************************************************************************)
AsciiLetters == LowerAscii \cup UpperAscii
ValueErrors == {"Tag name cannot be empty",
                "Tag name cannot be empty after normalization",
                "Tag names can only contain letters, numbers, and dashes"}

Has(v, S) == \E i \in 1..Len(v) : v[i] \in S
Only(v, S) == \A i \in 1..Len(v) : v[i] \in S

\* matches ^[a-z0-9-]+$, no leading or trailing dash, no two consecutive dashes
WellFormed(v) ==
    /\ MatchesTagPattern(v)
    /\ v[1] # Dash
    /\ v[Len(v)] # Dash
    /\ \A i \in 1..Len(v) - 1 : ~(v[i] = Dash /\ v[i + 1] = Dash)

\* C4 as stated: every input with a non-whitespace character that is made only
\* of letters, digits, dashes and whitespace normalizes successfully to a
\* well-formed name (letters and digits read as the ASCII ones).
C4_AsStated ==
    (res1 # NotRun /\ Has(raw, Chars \ Whitespace)
        /\ Only(raw, AsciiLetters \cup Digits \cup {Dash} \cup Whitespace))
    => (res1.ok /\ WellFormed(res1.val))

\* C4 amended: every input made only of ASCII letters, ASCII digits, dashes and
\* whitespace that holds at least one letter or digit normalizes successfully
\* to a name matching ^[a-z0-9-]+$ without leading, trailing or double dash.
C4_Normalized ==
    (res1 # NotRun /\ Has(raw, AsciiLetters \cup Digits)
        /\ Only(raw, AsciiLetters \cup Digits \cup {Dash} \cup Whitespace))
    => (res1.ok /\ WellFormed(res1.val))

\* an input with upper case, whitespace and dashes around a letter was normalized
C4_Witness ==
    /\ res1.ok
    /\ Has(raw, UpperAscii) /\ Has(raw, Whitespace) /\ Has(raw, {Dash})
    /\ raw[1] \in {Dash} \cup Whitespace
    /\ Only(raw, AsciiLetters \cup Digits \cup {Dash} \cup Whitespace)

\* C5: normalize fails with the invalid-tag-name error (a ValueError), returning
\* no value, on every empty or whitespace-only input and on every input holding
\* a character that is no letter, digit, dash or whitespace (a letter outside
\* ASCII counts as such a character here, which only widens the claim).
C5_Rejects ==
    (res1 # NotRun
        /\ (Only(raw, Whitespace)
            \/ Has(raw, Chars \ (AsciiLetters \cup Digits \cup {Dash} \cup Whitespace))))
    => (~res1.ok /\ res1.error \in ValueErrors /\ res1.val = <<>>)

\* a disallowed character among allowed ones was rejected
C5_Witness ==
    /\ res1 # NotRun
    /\ ~res1.ok
    /\ Has(raw, Punctuation) /\ Has(raw, AsciiLetters) /\ Has(raw, Whitespace)

\* C6: normalize is idempotent: wherever it succeeds, normalizing the result
\* succeeds again and gives the same name.
C6_Idempotent == res2 # NotRun => (res2.ok /\ res2.val = res1.val)

\* the second call ran on a result that differs from the raw input
C6_Witness ==
    /\ res2 # NotRun
    /\ res1.val # raw
    /\ Has(res1.val, {Dash})

(***************************************************************************)
(* Properties of construction and the store (checked under Spec)           *)
(***************************************************************************)
IsNormalized(v) == normalize_name(v).ok /\ normalize_name(v).val = v
CaseInsensitiveEqual(a, b) == Lower(a) = Lower(b)

TagsInMemory == {mem[s] : s \in {x \in Sessions : mem[x].kind = "tag"}}
CrumbsInMemory == {mem[s] : s \in {x \in Sessions : mem[x].kind = "crumb"}}
UnitsInMemory == {mem[s] : s \in {x \in Sessions : mem[x].kind = "unit"}}

\* C1: every Tag instance in memory and every stored Tag row carries a name that
\* is the normalizer's output (name == normalize(name)); Tag(name="Python")
\* never gives a Tag named "Python".
C1_TagsNormalized ==
    /\ \A t \in TagsInMemory : IsNormalized(t.name)
    /\ \A t \in tag_rows : IsNormalized(t.name)

\* no two stored tags have case-insensitively equal names
NoCaseDuplicates(rows) ==
    \A t1 \in rows, t2 \in rows : t1.id # t2.id => ~CaseInsensitiveEqual(t1.name, t2.name)

\* the INSERT of a tag whose name collides with a stored one fails with a
\* uniqueness violation and stores nothing
CollidingInsertFails ==
    \A s \in Sessions :
        (/\ pc[s] = "new"
         /\ mem[s].kind = "tag"
         /\ \E t \in tag_rows : CaseInsensitiveEqual(t.name, mem[s].name)
         /\ pc'[s] # "new")
        => (/\ last' = Did("IntegrityError: unique", s, {})
            /\ pc'[s] = "idle"
            /\ tag_rows' = tag_rows)

\* C2: in every reachable state no two stored Tag rows have names equal under
\* case-insensitive comparison, and an insert that would collide with a stored
\* tag fails with a uniqueness violation, the second tag not being stored.
C2_UniqueTagNames == [](NoCaseDuplicates(tag_rows)) /\ [][CollidingInsertFails]_vars

\* a tag was refused for colliding with a stored tag that differs from it in case
C2_Witness ==
    /\ last.op = "IntegrityError: unique"
    /\ \E t \in tag_rows : t.name = <<"a">>
    /\ Cardinality(tag_rows) = 1

\* rows of table tag inserted by transactions that are still open
UncommittedTags == {Row(mem[s]) : s \in {x \in Sessions : pc[x] = "flushed" /\ mem[x].kind = "tag"}}

\* C3: when two connections create case-insensitively equal tags concurrently,
\* no interleaving lets both inserts through: among the stored rows and the rows
\* inserted by open transactions no two are case-insensitively equal, so at most
\* one of the two commits succeeds.
C3_AtMostOneCommits == NoCaseDuplicates(tag_rows \cup UncommittedTags)

\* one connection has inserted a tag and not yet committed while the other holds
\* a case-insensitively equal tag to insert
C3_Witness ==
    \E s1 \in Sessions, s2 \in Sessions :
        /\ pc[s1] = "flushed" /\ mem[s1].kind = "tag"
        /\ pc[s2] = "new" /\ mem[s2].kind = "tag"
        /\ mem[s1].name # mem[s2].name
        /\ CaseInsensitiveEqual(mem[s1].name, mem[s2].name)

\* no association row references a crumb or tag that is not stored
NoDanglingAssociation ==
    \A a \in crumb_tag :
        /\ a.crumb_id \in {c.id : c \in crumb_rows}
        /\ a.tag_id \in {t.id : t \in tag_rows}

\* a step that removes a tag removes exactly its association rows, no crumb
TagDeleteEffect ==
    \A t \in tag_rows :
        t \notin tag_rows' =>
            /\ crumb_tag' = {a \in crumb_tag : a.tag_id # t.id}
            /\ crumb_rows' = crumb_rows

\* a step that removes a crumb removes exactly its association rows, no tag
CrumbDeleteEffect ==
    \A c \in crumb_rows :
        c.id \notin {x.id : x \in crumb_rows'} =>
            /\ crumb_tag' = {a \in crumb_tag : a.crumb_id # c.id}
            /\ tag_rows' = tag_rows

CrumbIdentity(rows) == {<<c.id, c.body_md>> : c \in rows}

\* C8: deleting a Unit never deletes a Crumb: the stored crumbs (ids and bodies)
\* are the same after the delete as before it.
C8_UnitDeleteKeepsCrumbs ==
    [][\A u \in unit_rows :
          u \notin unit_rows' => CrumbIdentity(crumb_rows') = CrumbIdentity(crumb_rows)]_vars

\* a unit that a crumb referenced has been deleted and the crumb is still stored
C8_Witness ==
    /\ last.op = "delete_unit"
    /\ \E c \in crumb_rows : c.id \in last.refs

\* C9: a Crumb created without a visibility is a draft, and in every reachable
\* state every Crumb, in memory or stored, has visibility draft or published.
C9_VisibilityInEnum ==
    /\ \A c \in CrumbsInMemory : c.visibility \in Visibility
    /\ \A c \in crumb_rows : c.visibility \in Visibility

\* C10: constructing a Unit with a name over 100 characters or a Crumb with a
\* visibility outside the enum fails at construction: no such instance ever
\* exists in memory, and nothing of it reaches the store.
C10_RejectedAtConstruction ==
    /\ \A u \in UnitsInMemory : u.name <= UnitNameMaxLength
    /\ \A u \in unit_rows : u.name <= UnitNameMaxLength
    /\ \A c \in CrumbsInMemory : c.visibility # "bogus"

Ids(rows) == {r.id : r \in rows}

\* C11: relationship reads agree with the stored rows in both directions: a read
\* of a Crumb yields the stored Unit whose id is the crumb's unit_id (none when
\* unit_id is unset) and exactly the stored Tags that have an association row
\* with it; a read of a Unit (a Tag) yields exactly the stored Crumbs whose
\* unit_id is that unit (that have an association row with that tag), an empty
\* collection when there are none.
C11_ReadsAgreeWithRows ==
    /\ last.op = "read_crumb" =>
          \E c \in crumb_rows :
              /\ c.id = last.id
              /\ last.refs.unit \subseteq unit_rows
              /\ last.refs.tags \subseteq tag_rows
              /\ Ids(last.refs.unit) = (IF c.unit_id = NULL THEN {} ELSE {c.unit_id})
              /\ Ids(last.refs.tags) =
                     {a.tag_id : a \in {x \in crumb_tag : x.crumb_id = c.id}}
    /\ last.op = "read_unit" =>
          /\ last.refs.crumbs \subseteq crumb_rows
          /\ \A c \in crumb_rows : c \in last.refs.crumbs <=> c.unit_id = last.id
    /\ last.op = "read_tag" =>
          /\ last.refs.crumbs \subseteq crumb_rows
          /\ Ids(last.refs.crumbs) =
                 {a.crumb_id : a \in {x \in crumb_tag : x.tag_id = last.id}}

\* the second tag was read and came back with the crumb attached to it
C11_Witness ==
    /\ last.op = "read_tag"
    /\ last.id = 2
    /\ last.refs.crumbs # {}

CrumbAt(rows, id) == CHOOSE c \in rows : c.id = id

\* the committed step changed a stored field of crumb id
Modified(id) ==
    LET old == CrumbAt(crumb_rows, id)
        new == CrumbAt(crumb_rows', id)
    IN \/ old.body_md # new.body_md
       \/ old.visibility # new.visibility
       \/ old.unit_id # new.unit_id

CrumbTimestamps ==
    /\ \A c \in crumb_rows' :
          c.id \notin Ids(crumb_rows) => c.updated_at = NoTime
    /\ \A id \in Ids(crumb_rows) \cap Ids(crumb_rows') :
          /\ CrumbAt(crumb_rows', id).created_at = CrumbAt(crumb_rows, id).created_at
          /\ Modified(id) =>
                /\ CrumbAt(crumb_rows', id).updated_at # NoTime
                /\ CrumbAt(crumb_rows', id).updated_at > CrumbAt(crumb_rows, id).created_at
                /\ CrumbAt(crumb_rows', id).updated_at > CrumbAt(crumb_rows, id).updated_at

WordsTitled(n) ==
    [i \in 1..Len(n) |->
        IF n[i] = "-" THEN " "
        ELSE IF i = 1 \/ n[i - 1] = "-" THEN UpperChar(n[i])
        ELSE n[i]]

\* C13: for every normalized tag name n, display_name is n with every dash
\* replaced by a space and each dash-separated word title-cased: its first
\* character upper-cased, its remaining characters left lower-case.
C13_DisplayNameTitlesWords ==
    shown.ok => shown.val = WordsTitled(res1.val)

\* C14: the 1-50 character bound on a tag name is applied to the normalized
\* name, not the raw input: a tag-create input is accepted exactly when
\* normalize_name succeeds on it and the normalized result has between 1 and 50
\* characters (and the accepted shape carries that normalized name).
C14_BoundOnNormalizedName ==
    (shape # NotRun /\ res1 # NotRun) =>
        /\ shape.ok <=> (res1.ok /\ Len(res1.val) >= 1 /\ Len(res1.val) <= 50)
        /\ shape.ok => shape.val = res1.val

\* a raw input longer than 50 characters, accepted with a name of 50 characters
C14_Witness ==
    /\ Len(raw) > 50
    /\ res1.ok
    /\ shape.ok
    /\ Len(shape.val) = 50

\* an input whose normalized form has more than 50 characters, rejected
C14_WitnessTooLong ==
    /\ res1.ok
    /\ Len(res1.val) > 50
    /\ ~shape.ok
    /\ shape.error = "string length"

====
